---- MODULE Spec2Model ----
(***************************************************************************)
(* The state-threaded branching workflow of react_agent: the graph built   *)
(* by create_workflow (graph.py), the nodes it routes through (nodes/*.py) *)
(* wrapped by error_handler (nodes/__init__.py), and the shared State      *)
(* record (state.py) they read and update.                                 *)
(***************************************************************************)
EXTENDS Integers, Sequences, FiniteSets, TLC

(***************************************************************************)
(* Bounds of the model.                                                    *)
(***************************************************************************)
\* how many of the EntityType kinds the entity classifier may answer
NumKinds == 2
\* how many distinct non-empty texts a text-producing capability may answer
NumTexts == 1

(***************************************************************************)
(* Values.                                                                 *)
(***************************************************************************)
\* nodes/entity_name.py EntityType, in declaration order
EntityType == <<"Target", "ISRTask", "Arrow", "FriendlyForce", "PhaseLine",
                "CASEVACTask", "FireMission", "Message">>

Kinds == {EntityType[i] : i \in 1..NumKinds}

TextNames == <<"txt1", "txt2", "txt3">>

\* what an LLM may answer for a str field: the empty string or some text
Texts == {""} \cup {TextNames[i] : i \in 1..NumTexts}

\* what the caller may pass as State.input
Inputs == {"", "input"}

\* nodes/classify.py FlowType
FlowType == {"trigger", "query", "action"}

\* state.py ActionType
ActionType == {"create_entity", "update_entity"}

\* A filters dict (Dict[str, Any]) is a function from its keys to values.
\* No node reads the content of a filters dict (api_agent only adds the
\* "type" key to it), so one answer stands for them all.
FilterDicts == {[k \in {"priority"} |-> "high"]}

\* state.py QueryParams
QueryParams == [entity_type : Kinds, filters : FilterDicts]

\* state.py TriggerParts
TriggerParts == [query : Texts, action : Texts]

\* state.py EntityData
EntityData == [type : Kinds, properties : FilterDicts]

(***************************************************************************)
(* Optional[T]: None is the empty set, a value v is {v}.                   *)
(***************************************************************************)
None == {}

Some(v) == {v}

IsSet(x) == x # {}

Val(x) == CHOOSE v \in x : TRUE

\* Python truthiness of an Optional[str]: None and "" are falsy
TruthyStr(x) == IsSet(x) /\ Val(x) # ""

(***************************************************************************)
(* State (state.py): the Record threaded through the graph.                *)
(***************************************************************************)
OptionalFields == {"flow_type", "trigger_parts", "is_geographic",
                   "entity_type_query", "entity_type_action",
                   "entity_type_source", "entity_type_destination",
                   "raw_query_params_for_edit", "raw_source_query",
                   "raw_destination_query",
                   "query_params", "query_params_for_edit",
                   "source_query_params", "destination_query_params",
                   "action_type", "entity",
                   "api_response", "user_response", "response",
                   "status", "error"}

ReducerFields == {"messages", "errors"}

Fields == {"input"} \cup OptionalFields \cup ReducerFields

\* State(input=i): every Optional field defaults to None, the lists to []
NewState(i) ==
    [k \in Fields |-> IF k = "input" THEN i
                      ELSE IF k \in ReducerFields THEN <<>>
                      ELSE None]

\* ApplyUpdates as it would be without the reducer annotation on errors
\* and messages: the returned list replaces the stored one
ApplyUpdates_replace(s, u) ==
    [k \in Fields |-> IF k \in DOMAIN u THEN u[k] ELSE s[k]]

\* How the graph library folds a node's returned dict into the State:
\* a key annotated with a reducer (add_messages) appends, any other key
\* is overwritten, keys the node did not return keep their value (so
\* the empty dict changes nothing).
ApplyUpdates(s, u) ==
    [k \in Fields |-> IF k \in DOMAIN u
                      THEN IF k \in ReducerFields THEN s[k] \o u[k] ELSE u[k]
                      ELSE s[k]]

\* the empty dict {}
EmptyDict == [k \in {} |-> None]

(***************************************************************************)
(* Outcome of running a node body: it returns a dict of updates or raises. *)
(*   calls : the capability invocations it made, in order                  *)
(*   muts  : State fields whose value it changed in place                  *)
(*   http  : the HTTP requests it issued                                   *)
(***************************************************************************)
Return(u, calls) ==
    [kind |-> "return", updates |-> u, msg |-> "", calls |-> calls,
     muts |-> EmptyDict, http |-> <<>>, branch |-> "none"]

Raise(m, calls) ==
    [kind |-> "raise", updates |-> EmptyDict, msg |-> m, calls |-> calls,
     muts |-> EmptyDict, http |-> <<>>, branch |-> "none"]

\* the task of the run is cancelled while the node body awaits: the await
\* raises asyncio.CancelledError after the calls, in-place changes and
\* requests made so far
Cancelled(calls, muts, http, branch) ==
    [kind |-> "cancelled", updates |-> EmptyDict, msg |-> "CancelledError",
     calls |-> calls, muts |-> muts, http |-> http, branch |-> branch]

\* one capability invocation of node n on text t
Call(n, t) == [node |-> n, text |-> t]

\* "except Exception" as it would be if it were "except BaseException"
Catches_BaseException(o) == o.kind \in {"raise", "cancelled"}

\* "except Exception": the clause catches what the node body raises, and
\* lets asyncio.CancelledError, a BaseException, pass
Catches(o) == o.kind = "raise"

\* error_handler as it would be if the except clause also marked the run:
\* an extra field written next to the errors entry
error_handler_status(o) ==
    IF o.kind = "raise"
    THEN [errors |-> <<o.msg>>, status |-> Some("error")] ELSE o.updates

\* error_handler as it would be if the except clause returned an empty
\* dict: the failure is swallowed without a trace
error_handler_swallow(o) ==
    IF o.kind = "raise" THEN EmptyDict ELSE o.updates

\* nodes/__init__.py error_handler: the wrapper every node runs under
error_handler(o) ==
    IF Catches(o) THEN [errors |-> <<o.msg>>] ELSE o.updates

(***************************************************************************)
(* The nodes.  Each operator is the set of outcomes the node body can have *)
(* in State s: one per answer the external capability may give, and one    *)
(* for each way the body can raise.  A capability failure stands for any   *)
(* exception of load_chat_model or of chain.ainvoke (model error, output   *)
(* that does not parse into the declared pydantic shape).                  *)
(***************************************************************************)

\* nodes/classify.py classify_input
classify_input(s) ==
    LET calls == <<Call("classify_input", s.input)>>
    IN  {Return([flow_type |-> Some(f),
                 messages |-> <<[type |-> "human", content |-> s.input]>>],
                calls) : f \in FlowType}
        \cup {Raise("classify_input: capability failure", calls)}

\* nodes/trigger.py trigger_extract
trigger_extract(s) ==
    LET calls == <<Call("trigger_extract", s.input)>>
    IN  {Return([trigger_parts |-> Some(tp)], calls) : tp \in TriggerParts}
        \cup {Raise("trigger_extract: capability failure", calls)}

\* nodes/check_geographic.py check_geographic
check_geographic(s) ==
    LET query_text == IF IsSet(s.trigger_parts)
                      THEN Val(s.trigger_parts).query ELSE s.input
        calls == <<Call("check_geographic", query_text)>>
    IN  {Return([is_geographic |-> Some(b)], calls) : b \in BOOLEAN}
        \cup {Raise("check_geographic: capability failure", calls)}

\* nodes/geographic.py geographic_extract: reads state.trigger_parts.query
\* with no test of trigger_parts, an AttributeError when it is None
geographic_extract(s) ==
    IF ~IsSet(s.trigger_parts)
    THEN {Raise("'NoneType' object has no attribute 'query'", <<>>)}
    ELSE LET calls == <<Call("geographic_extract", Val(s.trigger_parts).query)>>
         IN  {Return([raw_source_query |-> Some(src),
                      raw_destination_query |-> Some(tgt)], calls)
                 : src \in Texts, tgt \in Texts}
             \cup {Raise("geographic_extract: capability failure", calls)}

\* nodes/action.py check_action
check_action(s) ==
    LET action_text == IF IsSet(s.trigger_parts)
                       THEN Val(s.trigger_parts).action ELSE s.input
        calls == <<Call("check_action", action_text)>>
    IN  {Return([action_type |-> Some(a)], calls) : a \in ActionType}
        \cup {Raise("check_action: capability failure", calls)}

\* nodes/edit.py action_extract
action_extract(s) ==
    LET action_text == IF IsSet(s.trigger_parts)
                       THEN Val(s.trigger_parts).action ELSE s.input
        calls == <<Call("action_extract", action_text)>>
    IN  {Return([raw_query_params_for_edit |-> Some(t)], calls) : t \in Texts}
        \cup {Raise("action_extract: capability failure", calls)}

\* the subsequence of the elements of a sequence of 0-or-1-element
\* sequences, flattened: the calls a chain of "if cond: call" makes
RECURSIVE Flatten(_)
Flatten(ss) == IF ss = <<>> THEN <<>> ELSE Head(ss) \o Flatten(Tail(ss))

\* the dict as it would be if an assignment to a key that is already
\* present were skipped: the earliest value stays
DictOf_first_wins(keys, vals) ==
    [k \in {keys[i] : i \in 1..Len(keys)} |->
        LET first == CHOOSE i \in 1..Len(keys) :
                        /\ keys[i] = k
                        /\ \A j \in 1..(i-1) : keys[j] # k
        IN  Some(vals[first])]

\* the dict a sequence of assignments result[key] = value builds: a later
\* assignment to the same key replaces the earlier one
DictOf(keys, vals) ==
    [k \in {keys[i] : i \in 1..Len(keys)} |->
        LET last == CHOOSE i \in 1..Len(keys) :
                       /\ keys[i] = k
                       /\ \A j \in (i+1)..Len(keys) : keys[j] # k
        IN  Some(vals[last])]

\* the five blocks as they would be if the trigger query were resolved
\* in geographic runs too
EntityListed_geographic_query(s) ==
    LET tp == s.trigger_parts
    IN  Flatten(<<
          IF TruthyStr(s.raw_query_params_for_edit)
          THEN <<[key |-> "entity_type_action",
                  text |-> Val(s.raw_query_params_for_edit)]>> ELSE <<>>,
          IF TruthyStr(s.raw_source_query)
          THEN <<[key |-> "entity_type_source",
                  text |-> Val(s.raw_source_query)]>> ELSE <<>>,
          IF TruthyStr(s.raw_destination_query)
          THEN <<[key |-> "entity_type_destination",
                  text |-> Val(s.raw_destination_query)]>> ELSE <<>>,
          IF IsSet(tp) /\ Val(tp).query # ""
          THEN <<[key |-> "entity_type_query",
                  text |-> Val(tp).query]>> ELSE <<>>,
          IF IsSet(tp) /\ Val(tp).action # "" /\ ~IsSet(s.query_params_for_edit)
          THEN <<[key |-> "entity_type_action",
                  text |-> Val(tp).action]>> ELSE <<>> >>)

\* nodes/entity_name.py extract_all_entities: the _extract_entity_type
\* calls its five "if" blocks make, in order, as <<result key, text>>
EntityListed(s) ==
    LET tp == s.trigger_parts
    IN  Flatten(<<
          IF TruthyStr(s.raw_query_params_for_edit)
          THEN <<[key |-> "entity_type_action",
                  text |-> Val(s.raw_query_params_for_edit)]>> ELSE <<>>,
          IF TruthyStr(s.raw_source_query)
          THEN <<[key |-> "entity_type_source",
                  text |-> Val(s.raw_source_query)]>> ELSE <<>>,
          IF TruthyStr(s.raw_destination_query)
          THEN <<[key |-> "entity_type_destination",
                  text |-> Val(s.raw_destination_query)]>> ELSE <<>>,
          IF IsSet(tp) /\ s.is_geographic = Some(FALSE) /\ Val(tp).query # ""
          THEN <<[key |-> "entity_type_query",
                  text |-> Val(tp).query]>> ELSE <<>>,
          IF IsSet(tp) /\ Val(tp).action # "" /\ ~IsSet(s.query_params_for_edit)
          THEN <<[key |-> "entity_type_action",
                  text |-> Val(tp).action]>> ELSE <<>> >>)

\* the fallback as it would be without the test of flow_type: the kind
\* resolved from input always goes to entity_type_query
EntityCalls_always_query(s) ==
    IF EntityListed(s) = <<>> /\ s.input # ""
    THEN <<[key |-> "entity_type_query", text |-> s.input]>>
    ELSE EntityListed(s)

\* extract_all_entities: the listed calls, or when there is none and input
\* is not empty, one call on input
EntityCalls(s) ==
    IF EntityListed(s) = <<>> /\ s.input # ""
    THEN IF s.flow_type = Some("action")
         THEN <<[key |-> "entity_type_action", text |-> s.input]>>
         ELSE <<[key |-> "entity_type_query", text |-> s.input]>>
    ELSE EntityListed(s)

\* nodes/entity_name.py entity_name_extract
entity_name_extract(s) ==
    LET ec == EntityCalls(s)
        n == Len(ec)
        keys == [i \in 1..n |-> ec[i].key]
        log(m) == [i \in 1..m |-> Call("entity_name_extract", ec[i].text)]
    IN  {Return(DictOf(keys, ans), log(n)) : ans \in [1..n -> Kinds]}
        \cup {Raise("entity_name_extract: capability failure", log(i))
                 : i \in 1..n}

\* nodes/query.py parse_all_queries: the _generate_query_for_entity calls
\* its four "if" blocks make, in order, as <<result key, entity type, text>>
QueryListed(s) ==
    LET tp == s.trigger_parts
    IN  Flatten(<<
          IF IsSet(s.entity_type_source) /\ TruthyStr(s.raw_source_query)
          THEN <<[key |-> "source_query_params",
                  entity_type |-> Val(s.entity_type_source),
                  text |-> Val(s.raw_source_query)]>> ELSE <<>>,
          IF IsSet(s.entity_type_destination)
             /\ TruthyStr(s.raw_destination_query)
          THEN <<[key |-> "destination_query_params",
                  entity_type |-> Val(s.entity_type_destination),
                  text |-> Val(s.raw_destination_query)]>> ELSE <<>>,
          IF IsSet(s.entity_type_action)
             /\ TruthyStr(s.raw_query_params_for_edit)
          THEN <<[key |-> "query_params_for_edit",
                  entity_type |-> Val(s.entity_type_action),
                  text |-> Val(s.raw_query_params_for_edit)]>> ELSE <<>>,
          IF IsSet(tp) /\ Val(tp).query # "" /\ IsSet(s.entity_type_query)
          THEN <<[key |-> "query_params",
                  entity_type |-> Val(s.entity_type_query),
                  text |-> Val(tp).query]>> ELSE <<>> >>)

\* parse_all_queries without its last block: input is never structured
QueryCalls_no_fallback(s) == QueryListed(s)

\* parse_all_queries: the listed calls, or when there is none, input is not
\* empty and entity_type_query is set, one call on input
QueryCalls(s) ==
    IF QueryListed(s) = <<>> /\ s.input # "" /\ IsSet(s.entity_type_query)
    THEN <<[key |-> "query_params",
            entity_type |-> Val(s.entity_type_query),
            text |-> s.input]>>
    ELSE QueryListed(s)

\* configuration.py get_entity_schema: TRUE when it returns a schema,
\* FALSE when it raises ValueError (no file, bad JSON, no 'fields')
get_entity_schema(schemas, entity_type) == entity_type \in schemas

\* nodes/query.py query_parser: each call looks the schema up, then asks
\* the structuring capability; the first exception ends the whole node
query_parser(s, schemas) ==
    LET qc == QueryCalls(s)
        n == Len(qc)
        keys == [i \in 1..n |-> qc[i].key]
        log(m) == [i \in 1..m |-> Call("query_parser", qc[i].text)]
        missing == {i \in 1..n : ~get_entity_schema(schemas, qc[i].entity_type)}
        \* the index of the first call whose schema lookup raises, or n+1
        stop == IF missing = {} THEN n + 1
                ELSE CHOOSE i \in missing : \A j \in missing : i <= j
    IN  (IF stop = n + 1
         THEN {Return(DictOf(keys, ans), log(n)) : ans \in [1..n -> QueryParams]}
         ELSE {Raise("Schema file not found for entity type", log(stop - 1))})
        \cup {Raise("query_parser: capability failure", log(i))
                 : i \in 1..(stop - 1)}

\* nodes/create.py action_parser: after the schema lookup the prompt
\* f-string reads state.position, which State does not declare, so the
\* body raises AttributeError before it reaches the capability
action_parser(s, schemas) ==
    IF ~IsSet(s.entity_type_action)
    THEN {Return(EmptyDict, <<>>)}
    ELSE {Raise("action_parser: capability failure", <<>>)}
         \cup (IF ~get_entity_schema(schemas, Val(s.entity_type_action))
               THEN {Raise("Schema file not found for entity type", <<>>)}
               ELSE {Raise("'State' object has no attribute 'position'", <<>>)})

(***************************************************************************)
(* The terminal step, nodes/api.py api_agent.                              *)
(***************************************************************************)

\* the chain with the entity test moved above the trigger_parts test
ApiBranch_entity_first(s) ==
    IF IsSet(s.source_query_params) /\ IsSet(s.destination_query_params)
    THEN "geo_trigger"
    ELSE IF IsSet(s.entity) THEN "create"
    ELSE IF IsSet(s.trigger_parts) THEN "layer_trigger"
    ELSE IF IsSet(s.query_params_for_edit) THEN "update"
    ELSE IF IsSet(s.query_params) THEN "query"
    ELSE "noop"

\* the chain without its last elif: query_params alone selects nothing
ApiBranch_no_query(s) ==
    IF IsSet(s.source_query_params) /\ IsSet(s.destination_query_params)
    THEN "geo_trigger"
    ELSE IF IsSet(s.trigger_parts) THEN "layer_trigger"
    ELSE IF IsSet(s.query_params_for_edit) THEN "update"
    ELSE IF IsSet(s.entity) THEN "create"
    ELSE "noop"

\* the chain as it would be with the query test placed before the
\* trigger_parts test
ApiBranch_query_first(s) ==
    IF IsSet(s.source_query_params) /\ IsSet(s.destination_query_params)
    THEN "geo_trigger"
    ELSE IF IsSet(s.query_params) THEN "query"
    ELSE IF IsSet(s.trigger_parts) THEN "layer_trigger"
    ELSE IF IsSet(s.query_params_for_edit) THEN "update"
    ELSE IF IsSet(s.entity) THEN "create"
    ELSE "noop"

\* the if/elif chain of api_agent: which branch State s selects.  A
\* pydantic object is truthy whenever it is not None.
ApiBranch(s) ==
    IF IsSet(s.source_query_params) /\ IsSet(s.destination_query_params)
    THEN "geo_trigger"
    ELSE IF IsSet(s.trigger_parts) THEN "layer_trigger"
    ELSE IF IsSet(s.query_params_for_edit) THEN "update"
    ELSE IF IsSet(s.entity) THEN "create"
    ELSE IF IsSet(s.query_params) THEN "query"
    ELSE "noop"

\* filters["type"] = entity_type, done on the dict the State holds
SetType(qp) ==
    [qp EXCEPT !.filters =
        [k \in DOMAIN qp.filters \cup {"type"} |->
            IF k = "type" THEN qp.entity_type ELSE qp.filters[k]]]

\* one session.post(url, json=...): the request as it is sent
\* and whether it was answered (ok) or raised
Post(url, type, action) ==
    [url |-> url, type |-> type, action |-> action, ok |-> TRUE]

\* an outcome of the try block: the returned dict, the in-place changes,
\* the requests issued and the branch that was selected
ApiReturn(u, muts, http, branch) ==
    [kind |-> "return", updates |-> u, msg |-> "", calls |-> <<>>,
     muts |-> muts, http |-> http, branch |-> branch]

\* Posted as it would be without the try/except around the branches: the
\* failure of the request leaves api_agent
Posted_unhandled(text, withMsg, muts, req, branch) ==
    { ApiReturn(IF withMsg
                THEN [response |-> Some(text),
                      messages |-> <<[type |-> "ai", content |-> text]>>]
                ELSE [response |-> Some(text)],
                muts, <<req>>, branch),
      [kind |-> "raise", updates |-> EmptyDict, msg |-> "request failed",
       calls |-> <<>>, muts |-> muts,
       http |-> <<[req EXCEPT !.ok = FALSE]>>, branch |-> branch] }

\* the two ends of a branch that posts: the request succeeds and the
\* branch returns its success text (with an AIMessage when withMsg), or
\* the request or response.json() raises and the except clause returns
\* the error text
Posted(text, withMsg, muts, req, branch) ==
    { ApiReturn(IF withMsg
                THEN [response |-> Some(text),
                      messages |-> <<[type |-> "ai", content |-> text]>>]
                ELSE [response |-> Some(text)],
                muts, <<req>>, branch),
      ApiReturn([response |-> Some("Error: request failed")],
                muts, <<[req EXCEPT !.ok = FALSE]>>, branch) }

\* api_agent as it would be if the layer-trigger branch sent an empty
\* query when query_params is None instead of reading its filters
api_agent_layer_without_query(s) ==
    LET b == ApiBranch(s)
        edit == IsSet(s.query_params_for_edit)
    IN
    {Raise("api_agent: capability failure", <<>>)} \cup
    CASE b = "geo_trigger" ->
           Posted("Successfully created trigger", TRUE,
                  [source_query_params |->
                       Some(SetType(Val(s.source_query_params))),
                   destination_query_params |->
                       Some(SetType(Val(s.destination_query_params)))],
                  Post("/triggers/new", "geoRule",
                       IF edit THEN "updateEntity" ELSE "addEntity"), b)
      [] b = "layer_trigger" ->
           Posted("Successfully created trigger", TRUE,
                  IF IsSet(s.query_params)
                  THEN [query_params |-> Some(SetType(Val(s.query_params)))]
                  ELSE EmptyDict,
                  Post("/triggers/new", "layer",
                       IF edit THEN "updateEntity" ELSE "createEntity"), b)
      [] b = "update" ->
           Posted("Successfully updated entity", FALSE, EmptyDict,
                  Post("/entities/update-by-query/", "update", "none"), b)
      [] b = "create" ->
           Posted("Successfully created entity", TRUE, EmptyDict,
                  Post("/entities/add", "entity", "none"), b)
      [] b = "query" ->
           Posted("Query results", TRUE,
                  [query_params |-> Some(SetType(Val(s.query_params)))],
                  Post("/entities/query", "query", "none"), b)
      [] OTHER ->
           {ApiReturn([response |-> Some("No valid operation found in state")],
                      EmptyDict, <<>>, b)}

\* nodes/api.py api_agent: the outcomes of the terminal step in State s
api_agent(s) ==
    LET b == ApiBranch(s)
        edit == IsSet(s.query_params_for_edit)
    IN
    \* TriggerNotificationHandler(config) loads the chat model before the
    \* try block is entered
    {Raise("api_agent: capability failure", <<>>)} \cup
    CASE b = "geo_trigger" ->
           Posted("Successfully created trigger", TRUE,
                  [source_query_params |->
                       Some(SetType(Val(s.source_query_params))),
                   destination_query_params |->
                       Some(SetType(Val(s.destination_query_params)))],
                  Post("/triggers/new", "geoRule",
                       IF edit THEN "updateEntity" ELSE "addEntity"), b)
      [] b = "layer_trigger" ->
           IF ~IsSet(s.query_params)
           THEN {ApiReturn([response |->
                      Some("Error: 'NoneType' object has no attribute 'filters'")],
                      EmptyDict, <<>>, b)}
           ELSE Posted("Successfully created trigger", TRUE,
                       [query_params |-> Some(SetType(Val(s.query_params)))],
                       Post("/triggers/new", "layer",
                            IF edit THEN "updateEntity" ELSE "createEntity"), b)
      [] b = "update" ->
           Posted("Successfully updated entity", FALSE, EmptyDict,
                  Post("/entities/update-by-query/", "update", "none"), b)
      [] b = "create" ->
           Posted("Successfully created entity", TRUE, EmptyDict,
                  Post("/entities/add", "entity", "none"), b)
      [] b = "query" ->
           Posted("Query results", TRUE,
                  [query_params |-> Some(SetType(Val(s.query_params)))],
                  Post("/entities/query", "query", "none"), b)
      [] OTHER ->
           {ApiReturn([response |-> Some("No valid operation found in state")],
                      EmptyDict, <<>>, b)}

(***************************************************************************)
(* The graph, graph.py create_workflow.                                    *)
(***************************************************************************)
Nodes == {"classify_input", "trigger_extract", "check_geographic",
          "geographic_extract", "check_action", "action_extract",
          "entity_name_extract", "query_parser", "action_parser",
          "api_agent"}

\* a lookup that falls through to the resolver when the value has no entry
Branch_default(value, path_map) ==
    IF IsSet(value) /\ Val(value) \in DOMAIN path_map
    THEN path_map[Val(value)] ELSE "entity_name_extract"

\* add_conditional_edges(node, path, path_map): the path_map is looked up
\* with the value path(state) returns; a value that is not a key of the
\* map (None included) raises out of the run
Branch(value, path_map) ==
    IF IsSet(value) /\ Val(value) \in DOMAIN path_map
    THEN path_map[Val(value)] ELSE "ROUTING_ERROR"

\* the path_map with update_entity sent straight to the resolver
check_action_edges_skip_extract ==
    [update_entity |-> "entity_name_extract",
     create_entity |-> "entity_name_extract",
     update_entity_without_query |-> "entity_name_extract"]

\* the path_map with both answers sent to the decomposer
check_geographic_edges_always_geo ==
    [b \in BOOLEAN |-> "geographic_extract"]

\* path_map of the conditional edges out of classify_input
classify_input_edges ==
    [trigger |-> "trigger_extract",
     action |-> "check_action",
     query |-> "entity_name_extract"]

\* path_map of the conditional edges out of check_geographic (True, False)
check_geographic_edges ==
    [b \in BOOLEAN |-> IF b THEN "geographic_extract"
                              ELSE "entity_name_extract"]

\* path_map of the conditional edges out of check_action
check_action_edges ==
    [update_entity |-> "action_extract",
     create_entity |-> "entity_name_extract",
     update_entity_without_query |-> "entity_name_extract"]

\* the graph with the edge out of action_extract led back to
\* check_geographic
Router_loop(n, s) ==
    CASE n = "classify_input" -> Branch(s.flow_type, classify_input_edges)
      [] n = "trigger_extract" -> "check_geographic"
      [] n = "check_geographic" ->
           Branch(s.is_geographic, check_geographic_edges)
      [] n = "geographic_extract" -> "check_action"
      [] n = "check_action" -> Branch(s.action_type, check_action_edges)
      [] n = "action_extract" -> "check_geographic"
      [] n = "entity_name_extract" -> "query_parser"
      [] n = "query_parser" -> "action_parser"
      [] n = "action_parser" -> "api_agent"
      [] n = "api_agent" -> "END"

\* the graph with the edge out of query_parser led straight to api_agent
Router_skip_action_parser(n, s) ==
    CASE n = "classify_input" -> Branch(s.flow_type, classify_input_edges)
      [] n = "trigger_extract" -> "check_geographic"
      [] n = "check_geographic" ->
           Branch(s.is_geographic, check_geographic_edges)
      [] n = "geographic_extract" -> "check_action"
      [] n = "check_action" -> Branch(s.action_type, check_action_edges)
      [] n = "action_extract" -> "entity_name_extract"
      [] n = "entity_name_extract" -> "query_parser"
      [] n = "query_parser" -> "api_agent"
      [] n = "action_parser" -> "api_agent"
      [] n = "api_agent" -> "END"

\* the node that runs after node n when the State is s
Router(n, s) ==
    CASE n = "classify_input" -> Branch(s.flow_type, classify_input_edges)
      [] n = "trigger_extract" -> "check_geographic"
      [] n = "check_geographic" ->
           Branch(s.is_geographic, check_geographic_edges)
      [] n = "geographic_extract" -> "check_action"
      [] n = "check_action" -> Branch(s.action_type, check_action_edges)
      [] n = "action_extract" -> "entity_name_extract"
      [] n = "entity_name_extract" -> "query_parser"
      [] n = "query_parser" -> "action_parser"
      [] n = "action_parser" -> "api_agent"
      [] n = "api_agent" -> "END"

(***************************************************************************)
(* One run of the graph.                                                   *)
(***************************************************************************)
VARIABLES
    state,      \* the State record of the run
    pc,         \* the node to run next, "END", or "ROUTING_ERROR"
    schemas,    \* the entity kinds that have a valid schema file
    executed,   \* the nodes that have run, in order
    calls,      \* the capability invocations made, in order
    http,       \* the HTTP requests issued, in order
    api_branch, \* the branch api_agent selected, "none" before it ran
    last,       \* the outcome of the node that ran last
    frame       \* the arguments and locals of a function that is called on
                \* its own, outside the graph; NoFrame in a run of the graph

vars == <<state, pc, schemas, executed, calls, http, api_branch, last, frame>>

NoFrame == [fn |-> "none"]

\* State fields changed in place by the node body
ApplyMuts(s, m) == [k \in Fields |-> IF k \in DOMAIN m THEN m[k] ELSE s[k]]

\* the exception leaves the wrapper and with it graph.ainvoke: the run is
\* over, no further node is scheduled
Propagates(o) == o.kind = "cancelled" /\ ~Catches(o)

\* the graph runs node n (the node pc names): the wrapped node produces its dict, the dict is
\* folded into the State, and the edges out of n pick the next node
RunNode(n, o) ==
    /\ state' = ApplyUpdates(ApplyMuts(state, o.muts), error_handler(o))
    /\ pc' = IF Propagates(o) THEN "CANCELLED" ELSE Router(n, state')
    /\ executed' = Append(executed, n)
    /\ calls' = calls \o o.calls
    /\ http' = http \o o.http
    /\ api_branch' = IF n = "api_agent" THEN o.branch ELSE api_branch
    /\ last' = [node |-> n, kind |-> o.kind, msg |-> o.msg]
    /\ UNCHANGED <<schemas, frame>>

Step_classify_input ==
    /\ pc = "classify_input"
    /\ \E o \in classify_input(state) : RunNode("classify_input", o)

Step_trigger_extract ==
    /\ pc = "trigger_extract"
    /\ \E o \in trigger_extract(state) : RunNode("trigger_extract", o)

Step_check_geographic ==
    /\ pc = "check_geographic"
    /\ \E o \in check_geographic(state) : RunNode("check_geographic", o)

Step_geographic_extract ==
    /\ pc = "geographic_extract"
    /\ \E o \in geographic_extract(state) : RunNode("geographic_extract", o)

Step_check_action ==
    /\ pc = "check_action"
    /\ \E o \in check_action(state) : RunNode("check_action", o)

Step_action_extract ==
    /\ pc = "action_extract"
    /\ \E o \in action_extract(state) : RunNode("action_extract", o)

Step_entity_name_extract ==
    /\ pc = "entity_name_extract"
    /\ \E o \in entity_name_extract(state) : RunNode("entity_name_extract", o)

Step_query_parser ==
    /\ pc = "query_parser"
    /\ \E o \in query_parser(state, schemas) : RunNode("query_parser", o)

Step_action_parser ==
    /\ pc = "action_parser"
    /\ \E o \in action_parser(state, schemas) : RunNode("action_parser", o)

Step_api_agent ==
    /\ pc = "api_agent"
    /\ \E o \in api_agent(state) : RunNode("api_agent", o)

\* The schema directory of a run.  The code treats every kind alike and any
\* capability may answer any kind, so which kinds lack a file matters only
\* up to renaming: the directory holds the files of the first j kinds.
SchemaDirs == {{EntityType[i] : i \in 1..j} : j \in 0..NumKinds}

NoOutcome == [node |-> "none", kind |-> "none", msg |-> ""]

\* graph.ainvoke({"input": i}): a fresh State, entry point classify_input
Init ==
    /\ \E i \in Inputs : state = NewState(i)
    /\ pc = "classify_input"
    /\ schemas \in SchemaDirs
    /\ executed = <<>>
    /\ calls = <<>>
    /\ http = <<>>
    /\ api_branch = "none"
    /\ last = NoOutcome
    /\ frame = NoFrame

Next ==
    \/ Step_classify_input
    \/ Step_trigger_extract
    \/ Step_check_geographic
    \/ Step_geographic_extract
    \/ Step_check_action
    \/ Step_action_extract
    \/ Step_entity_name_extract
    \/ Step_query_parser
    \/ Step_action_parser
    \/ Step_api_agent

Spec == Init /\ [][Next]_vars

(***************************************************************************)
(* A run that may be cancelled.  A node can be cancelled only where its    *)
(* body awaits: the LLM call (chain.ainvoke), the read of a schema file    *)
(* that exists (aiofiles), or the HTTP request of api_agent.               *)
(***************************************************************************)
\* the outcomes of the body of node n in State s
NodeOutcomes(n, s, sch) ==
    CASE n = "classify_input" -> classify_input(s)
      [] n = "trigger_extract" -> trigger_extract(s)
      [] n = "check_geographic" -> check_geographic(s)
      [] n = "geographic_extract" -> geographic_extract(s)
      [] n = "check_action" -> check_action(s)
      [] n = "action_extract" -> action_extract(s)
      [] n = "entity_name_extract" -> entity_name_extract(s)
      [] n = "query_parser" -> query_parser(s, sch)
      [] n = "action_parser" -> action_parser(s, sch)
      [] n = "api_agent" -> api_agent(s)

\* the cancellations node n can receive in State s: one at each await the
\* body reaches.  action_parser awaits only the schema read (its chat
\* model is loaded synchronously and the prompt fails before ainvoke);
\* api_agent awaits only the request of the branch it took, after its
\* in-place changes; every other node awaits wherever its capability call
\* could have failed.
CancelPoints(n, s, sch) ==
    CASE n = "action_parser" ->
           IF IsSet(s.entity_type_action)
                 /\ get_entity_schema(sch, Val(s.entity_type_action))
           THEN {Cancelled(<<>>, EmptyDict, <<>>, "none")} ELSE {}
      [] n = "api_agent" ->
           {Cancelled(<<>>, o.muts, o.http, o.branch) :
               o \in {x \in api_agent(s) : x.http # <<>> /\ x.http[1].ok}}
      [] OTHER ->
           {Cancelled(o.calls, EmptyDict, <<>>, "none") :
               o \in {x \in NodeOutcomes(n, s, sch) :
                          x.kind = "raise" /\ x.calls # <<>>}}

\* task.cancel() on the run while the node pc names is suspended
Cancel ==
    /\ pc \in Nodes
    /\ \E o \in CancelPoints(pc, state, schemas) : RunNode(pc, o)

NextCancel == Next \/ Cancel

SpecCancel == Init /\ [][NextCancel]_vars

(***************************************************************************)
(* api_agent on its own: the terminal step applied to any State whose      *)
(* structured fields are populated in any combination.                     *)
(***************************************************************************)
Opt(S) == {None} \cup {Some(v) : v \in S}

InitApi ==
    /\ \E tp \in Opt(TriggerParts), e \in Opt(EntityData),
          sq \in Opt(QueryParams), dq \in Opt(QueryParams),
          qe \in Opt(QueryParams), q \in Opt(QueryParams) :
          state = [NewState("input") EXCEPT
                      !.trigger_parts = tp, !.entity = e,
                      !.source_query_params = sq,
                      !.destination_query_params = dq,
                      !.query_params_for_edit = qe,
                      !.query_params = q]
    /\ pc = "api_agent"
    /\ schemas = Kinds
    /\ executed = <<>>
    /\ calls = <<>>
    /\ http = <<>>
    /\ api_branch = "none"
    /\ last = NoOutcome
    /\ frame = NoFrame

NextApi == Step_api_agent

SpecApi == InitApi /\ [][NextApi]_vars

(***************************************************************************)
(* Functions that are called on their own, outside the graph.  While one   *)
(* of them runs the variables of the graph stay as GraphIdle leaves them,  *)
(* pc is the position inside the function, and frame holds its arguments   *)
(* and locals.                                                             *)
(***************************************************************************)
GraphIdle ==
    /\ state = NewState("")
    /\ schemas = {}
    /\ executed = <<>>
    /\ calls = <<>>
    /\ http = <<>>
    /\ api_branch = "none"

GraphUnchanged == UNCHANGED <<state, schemas, executed, calls, http, api_branch>>

(***************************************************************************)
(* nodes/trigger_notification.py: process_trigger_event on a handler that  *)
(* has been constructed.                                                   *)
(***************************************************************************)
\* values of the "trigger_data" key of the argument, the empty mapping
\* among them
TriggerDataValues ==
    {EmptyDict,
     [id |-> "trigger123", type |-> "geoRule"],
     [id |-> "trigger456", type |-> "layer"],
     [id |-> "trigger789"]}

\* values of the "event_data" key of the argument
EventDataValues ==
    {EmptyDict,
     [entity_type |-> "vehicle", entity_id |-> "v123"],
     [entity_type |-> "sensor", entity_id |-> "s456"],
     [timestamp |-> "2024-03-20T10:30:00Z"]}

\* what the chat model may answer to the event prompt
NotificationTexts == {"A trigger was activated", "Nothing happened", ""}

\* await handler.process_trigger_event(trigger_data); a key of the
\* argument is None when the argument does not have it
InitNotify ==
    /\ \E td \in Opt(TriggerDataValues), ed \in Opt(EventDataValues) :
          frame = [fn |-> "process_trigger_event",
                   trigger_data |-> td, event_data |-> ed,
                   event_prompt |-> None, result |-> None]
    /\ pc = "format_trigger_event"
    /\ last = NoOutcome
    /\ GraphIdle

\* format_trigger_event up to the model call: the f-string subscripts both
\* keys (KeyError when one is missing) and formats whatever they hold; no
\* other test of the argument is made
Notify_format_trigger_event ==
    /\ pc = "format_trigger_event"
    /\ IF ~IsSet(frame.trigger_data) \/ ~IsSet(frame.event_data)
       THEN /\ pc' = "RAISED"
            /\ last' = [node |-> "format_trigger_event", kind |-> "raise",
                        msg |-> "KeyError"]
            /\ UNCHANGED frame
       ELSE /\ pc' = "ainvoke"
            /\ frame' = [frame EXCEPT !.event_prompt =
                            Some(<<Val(frame.trigger_data),
                                   Val(frame.event_data)>>)]
            /\ UNCHANGED last
    /\ GraphUnchanged

\* response = await self.model.ainvoke(messages), and the return of
\* process_trigger_event: the call raises, or its content is wrapped into
\* the response dict
Notify_ainvoke ==
    /\ pc = "ainvoke"
    /\ \/ /\ pc' = "RAISED"
          /\ last' = [node |-> "format_trigger_event", kind |-> "raise",
                      msg |-> "format_trigger_event: capability failure"]
          /\ UNCHANGED frame
       \/ \E c \in NotificationTexts :
             /\ pc' = "RETURNED"
             /\ frame' = [frame EXCEPT !.result =
                             Some([response |-> c,
                                   messages |-> <<[type |-> "ai",
                                                   content |-> c]>>])]
             /\ last' = [node |-> "process_trigger_event", kind |-> "return",
                         msg |-> ""]
    /\ GraphUnchanged

NextNotify == Notify_format_trigger_event \/ Notify_ainvoke

SpecNotify == InitNotify /\ [][NextNotify]_vars

(***************************************************************************)
(* nodes/judge.py: one call of the wrapper JudgeWrapper(max_retries)       *)
(* builds around a node function.                                          *)
(***************************************************************************)
\* the largest max_retries the wrapper is built with (3 is the default)
MaxRetries == 3

\* what the wrapped function may return
JudgedResponses == {"response A", "response B"}

\* validate_response: the judge answers "yes", answers anything else, or
\* its call raises
Verdicts == {"yes", "no", "raise"}

\* validate_response: judgment == "yes", and True from the except clause
validate_response(verdict) == verdict \in {"yes", "raise"}

\* kwargs.get('prompt') or kwargs.get('messages') or
\* getattr(state, 'prompt', None) or getattr(state, 'messages', None):
\* the first truthy one, None when there is none.  State declares no
\* prompt attribute.
original_prompt(f) ==
    IF TruthyStr(f.kwargs_prompt) THEN Some("kwargs prompt")
    ELSE IF IsSet(f.kwargs_messages) /\ Val(f.kwargs_messages) # <<>>
         THEN Some("kwargs messages")
    ELSE IF f.state_messages # <<>> THEN Some("state messages")
    ELSE None

\* await wrapper(state, **kwargs)
InitJudge ==
    /\ \E m \in 0..MaxRetries,
          kp \in Opt({"", "prompt"}),
          km \in Opt({<<>>, <<"message">>}),
          sm \in {<<>>, <<"message">>} :
          frame = [fn |-> "JudgeWrapper", max_retries |-> m,
                   kwargs_prompt |-> kp, kwargs_messages |-> km,
                   state_messages |-> sm,
                   retries |-> 0,
                   response |-> None,   \* the local, unbound until assigned
                   responses |-> <<>>,  \* what func returned, per invocation
                   raised |-> 0,        \* invocations of func that raised
                   verdicts |-> <<>>,   \* what the judge did, per validation
                   returned |-> None]
    /\ pc = "while"
    /\ last = NoOutcome
    /\ GraphIdle

\* while retries < self.max_retries, and the test of original_prompt
Judge_while ==
    /\ pc = "while"
    /\ pc' = IF frame.retries < frame.max_retries
             THEN IF IsSet(original_prompt(frame))
                  THEN "call_func" ELSE "call_unvalidated"
             ELSE "return_last"
    /\ UNCHANGED <<frame, last>>
    /\ GraphUnchanged

\* return await func(state, *args, **kwargs), without validation
Judge_call_unvalidated ==
    /\ pc = "call_unvalidated"
    /\ \/ \E r \in JudgedResponses :
             /\ frame' = [frame EXCEPT !.responses = Append(@, r),
                                       !.returned = Some(r)]
             /\ pc' = "RETURNED"
             /\ last' = [node |-> "wrapper", kind |-> "return", msg |-> ""]
       \/ /\ frame' = [frame EXCEPT !.raised = @ + 1]
          /\ pc' = "RAISED"
          /\ last' = [node |-> "func", kind |-> "raise",
                      msg |-> "func: failure"]
    /\ GraphUnchanged

\* response = await func(state, *args, **kwargs)
Judge_call_func ==
    /\ pc = "call_func"
    /\ \/ \E r \in JudgedResponses :
             /\ frame' = [frame EXCEPT !.responses = Append(@, r),
                                       !.response = Some(r)]
             /\ pc' = "validate"
             /\ UNCHANGED last
       \/ /\ frame' = [frame EXCEPT !.raised = @ + 1]
          /\ pc' = "RAISED"
          /\ last' = [node |-> "func", kind |-> "raise",
                      msg |-> "func: failure"]
    /\ GraphUnchanged

\* is_valid = await self.validate_response(...); return response when it
\* is valid, retries += 1 otherwise
Judge_validate ==
    /\ pc = "validate"
    /\ \E v \in Verdicts :
          IF validate_response(v)
          THEN /\ frame' = [frame EXCEPT !.verdicts = Append(@, v),
                                         !.returned = frame.response]
               /\ pc' = "RETURNED"
               /\ last' = [node |-> "wrapper", kind |-> "return", msg |-> ""]
          ELSE /\ frame' = [frame EXCEPT !.verdicts = Append(@, v),
                                         !.retries = @ + 1]
               /\ pc' = "while"
               /\ UNCHANGED last
    /\ GraphUnchanged

\* return response, after the loop: the local is unbound when the loop
\* body never ran
Judge_return_last ==
    /\ pc = "return_last"
    /\ IF IsSet(frame.response)
       THEN /\ frame' = [frame EXCEPT !.returned = frame.response]
            /\ pc' = "RETURNED"
            /\ last' = [node |-> "wrapper", kind |-> "return", msg |-> ""]
       ELSE /\ pc' = "RAISED"
            /\ last' = [node |-> "wrapper", kind |-> "raise",
                        msg |-> "UnboundLocalError"]
            /\ UNCHANGED frame
    /\ GraphUnchanged

NextJudge ==
    \/ Judge_while
    \/ Judge_call_unvalidated
    \/ Judge_call_func
    \/ Judge_validate
    \/ Judge_return_last

SpecJudge == InitJudge /\ [][NextJudge]_vars

(***************************************************************************)
(* action_flow.py: the single node explain_event of the action flow, and   *)
(* _refine_action_with_llm which it calls.                                 *)
(***************************************************************************)
\* state.trigger["actions"][0]["payload"]
ActionPayloads ==
    {[status |-> "pending"],
     [status |-> "pending", executing_unit |-> ""]}

\* what the refinement chain may answer as refined_action_payload
RefinedPayloads ==
    ActionPayloads \cup {[status |-> "pending", executing_unit |-> "force-1"]}

\* how chain.ainvoke({}) of the refinement can end: the model call raises,
\* the parser rejects the model's output, or a RefinedActionOutput comes
\* back
RefineOutcomes ==
    {[kind |-> "call failed"], [kind |-> "parse failed"]}
        \cup {[kind |-> "refined", payload |-> p] : p \in RefinedPayloads}

\* the except clause as it would be if it returned an empty payload
refine_action_with_llm_empty(action_to_refine, outcome) ==
    IF outcome.kind = "refined" THEN outcome.payload ELSE EmptyDict

\* _refine_action_with_llm from its try block on: the refined payload, or
\* action_to_refine itself from the except clause
refine_action_with_llm(action_to_refine, outcome) ==
    IF outcome.kind = "refined" THEN outcome.payload ELSE action_to_refine

\* graph input {"trigger": ..., "entities": ...}.  The trigger is None or a
\* dict; payload, rawAction and rawTrigger are None when the dict lacks the
\* key (for payload: any link of ["actions"][0]["payload"]).
InitActionFlow ==
    /\ \E t \in {None} \cup
                {Some([payload |-> p, rawAction |-> a, rawTrigger |-> q]) :
                    p \in Opt(ActionPayloads),
                    a \in Opt({"create a task"}),
                    q \in Opt({"when a force enters the area"})},
          e \in Opt({<<>>, <<[id |-> "force-1", type |-> "force"]>>}) :
          frame = [fn |-> "explain_event", trigger |-> t, entities |-> e,
                   payload |-> None,
                   refine |-> "none",        \* how the refinement ended
                   refined_action |-> None,
                   result |-> None]
    /\ pc = "read_trigger"
    /\ last = NoOutcome
    /\ GraphIdle

\* explain_event raises at position pos
ActionFlowRaises(pos, msg) ==
    /\ pc' = "RAISED"
    /\ last' = [node |-> pos, kind |-> "raise", msg |-> msg]
    /\ UNCHANGED frame

\* payload = state.trigger["actions"][0]["payload"];
\* raw_action = state.trigger["rawAction"]
ActionFlow_read_trigger ==
    /\ pc = "read_trigger"
    /\ IF ~IsSet(frame.trigger)
       THEN ActionFlowRaises("explain_event", "TypeError")
       ELSE IF ~IsSet(Val(frame.trigger).payload)
                 \/ ~IsSet(Val(frame.trigger).rawAction)
       THEN ActionFlowRaises("explain_event", "KeyError")
       ELSE /\ pc' = "load_chat_model"
            /\ frame' = [frame EXCEPT !.payload = Val(frame.trigger).payload]
            /\ UNCHANGED last
    /\ GraphUnchanged

\* _refine_action_with_llm before its try block: the configuration and
\* the chat model are loaded and the prompt is built
ActionFlow_load_chat_model ==
    /\ pc = "load_chat_model"
    /\ \/ ActionFlowRaises("_refine_action_with_llm",
                           "_refine_action_with_llm: capability failure")
       \/ pc' = "refine" /\ UNCHANGED <<frame, last>>
    /\ GraphUnchanged

\* the try block of _refine_action_with_llm and its except clause, and the
\* assignment of the result to refined_action
ActionFlow_refine ==
    /\ pc = "refine"
    /\ \E o \in RefineOutcomes :
          frame' = [frame EXCEPT
                       !.refine = o.kind,
                       !.refined_action =
                           Some(refine_action_with_llm(Val(frame.payload), o))]
    /\ pc' = "explain"
    /\ UNCHANGED last
    /\ GraphUnchanged

\* the rest of explain_event: the summary handler is built (it loads the
\* chat model), the event reads state.trigger["rawTrigger"], the
\* explanation is streamed with no try around it, and the dict is
\* returned; response is "" when the stream yields no chunk
ActionFlow_explain ==
    /\ pc = "explain"
    /\ \/ ActionFlowRaises("ActionFlowSummaryHandler",
                           "ActionFlowSummaryHandler: capability failure")
       \/ /\ ~IsSet(Val(frame.trigger).rawTrigger)
          /\ ActionFlowRaises("explain_event", "KeyError")
       \/ /\ IsSet(Val(frame.trigger).rawTrigger)
          /\ ActionFlowRaises("ActionFlowSummaryHandler.explain_event",
                              "explain_event: capability failure")
       \/ /\ IsSet(Val(frame.trigger).rawTrigger)
          /\ \E text \in {"", "explanation"} :
                frame' = [frame EXCEPT !.result =
                             Some([response |-> text,
                                   refined_action |-> frame.refined_action])]
          /\ pc' = "RETURNED"
          /\ last' = [node |-> "explain_event", kind |-> "return", msg |-> ""]
    /\ GraphUnchanged

NextActionFlow ==
    \/ ActionFlow_read_trigger
    \/ ActionFlow_load_chat_model
    \/ ActionFlow_refine
    \/ ActionFlow_explain

SpecActionFlow == InitActionFlow /\ [][NextActionFlow]_vars

(***************************************************************************)
(* Properties.                                                             *)
(***************************************************************************)
Executed(n) == \E i \in 1..Len(executed) : executed[i] = n

\* C1: after each routing step the next node is the one the transition
\* table gives for the value the step left in the Record.
C1_RoutingTable ==
    [][/\ pc = "classify_input" =>
            /\ state'.flow_type = Some("trigger") => pc' = "trigger_extract"
            /\ state'.flow_type = Some("action") => pc' = "check_action"
            /\ state'.flow_type = Some("query") => pc' = "entity_name_extract"
       /\ pc = "trigger_extract" => pc' = "check_geographic"
       /\ pc = "check_geographic" =>
            /\ state'.is_geographic = Some(TRUE) => pc' = "geographic_extract"
            /\ state'.is_geographic = Some(FALSE) => pc' = "entity_name_extract"
       /\ pc = "geographic_extract" => pc' = "check_action"
       /\ pc = "check_action" =>
            /\ state'.action_type = Some("update_entity")
                  => pc' = "action_extract"
            /\ state'.action_type = Some("create_entity")
                  => pc' = "entity_name_extract"
       /\ pc = "action_extract" => pc' = "entity_name_extract"]_vars

\* a run that went from check_action to action_extract and on to the resolver
C1_Witness ==
    /\ pc = "entity_name_extract"
    /\ Len(executed) >= 2
    /\ executed[Len(executed)] = "action_extract"
    /\ executed[Len(executed) - 1] = "check_action"
    /\ state.action_type = Some("update_entity")

\* C2: when the field inspected after classify_input, check_geographic or
\* check_action has no listed transition (unset included), the run ends in
\* a routing error: no node runs afterwards, api_agent has not run and no
\* HTTP request was issued.
C2_RoutingError ==
    [][/\ (\/ pc = "classify_input"
              /\ state'.flow_type \notin {Some(f) : f \in FlowType}
           \/ pc = "check_geographic"
              /\ state'.is_geographic \notin {Some(TRUE), Some(FALSE)}
           \/ pc = "check_action"
              /\ state'.action_type \notin {Some(a) : a \in ActionType})
          => /\ pc' = "ROUTING_ERROR"
             /\ http' = <<>>
             /\ \A i \in 1..Len(executed') : executed'[i] # "api_agent"
       /\ pc = "ROUTING_ERROR" => FALSE]_vars

\* check_action failed inside a trigger run and the run stopped there
C2_Witness ==
    /\ pc = "ROUTING_ERROR"
    /\ last.node = "check_action"
    /\ last.kind = "raise"
    /\ ~IsSet(state.action_type)
    /\ Executed("geographic_extract")

\* C3: a step that raises changes the Record by exactly one entry appended
\* to errors; every other field keeps its value.
C3_RaiseOnlyAppendsError ==
    [][last'.kind = "raise" =>
          /\ state'.errors = Append(state.errors, last'.msg)
          /\ \A k \in Fields \ {"errors"} : state'[k] = state[k]]_vars

\* a second step raised after fields had been set
C3_Witness ==
    /\ last.kind = "raise"
    /\ Len(state.errors) = 2
    /\ IsSet(state.trigger_parts)
    /\ ~IsSet(state.query_params)

\* C4: once a step has raised into errors, a run that has stopped has
\* executed api_agent.
C4_ErrorRunReachesApi ==
    (pc \notin Nodes /\ state.errors # <<>>) => Executed("api_agent")

\* C5: api_agent selects the first matching branch in the order
\* source+destination, trigger_parts, query_params_for_edit, entity,
\* query_params, and returns the no-operation response when none matches.
C5_BranchPriority ==
    (pc = "END" /\ last.kind = "return") =>
      LET geo == IsSet(state.source_query_params)
                    /\ IsSet(state.destination_query_params)
          tp == IsSet(state.trigger_parts)
          qe == IsSet(state.query_params_for_edit)
          en == IsSet(state.entity)
          qp == IsSet(state.query_params)
          urls == {http[i].url : i \in 1..Len(http)}
      IN  /\ geo => api_branch = "geo_trigger"
          /\ ~geo /\ tp => api_branch = "layer_trigger"
          /\ ~geo /\ ~tp /\ qe => api_branch = "update"
          /\ ~geo /\ ~tp /\ ~qe /\ en => api_branch = "create"
          /\ ~geo /\ ~tp /\ ~qe /\ ~en /\ qp => api_branch = "query"
          /\ ~geo /\ ~tp /\ ~qe /\ ~en /\ ~qp =>
                /\ api_branch = "noop"
                /\ state.response = Some("No valid operation found in state")
          /\ api_branch \in {"geo_trigger", "layer_trigger"}
                => urls \subseteq {"/triggers/new"}
          /\ api_branch = "update" => urls = {"/entities/update-by-query/"}
          /\ api_branch = "create" => urls = {"/entities/add"}
          /\ api_branch = "query" => urls = {"/entities/query"}
          /\ api_branch = "noop" => urls = {}

\* trigger_parts and entity both set, no source/destination pair: the
\* layer-trigger branch ran
C5_Witness ==
    /\ pc = "END"
    /\ IsSet(state.trigger_parts) /\ IsSet(state.entity)
    /\ IsSet(state.query_params)
    /\ ~IsSet(state.source_query_params)
    /\ api_branch = "layer_trigger"
    /\ Len(http) = 1 /\ http[1].type = "layer"

FinalActions == {"geo_trigger", "layer_trigger", "update", "create", "query"}

\* C6 as stated: every run that reaches the terminal step takes one of the
\* five final-action branches.
C6_AlwaysOneFinalAction ==
    (pc = "END" /\ last.kind = "return") => api_branch \in FinalActions

\* C6 amended: a run whose terminal step enters its branch logic takes at
\* most one final-action branch, issuing at most one request: exactly one
\* when source+destination, trigger_parts, query_params_for_edit, entity
\* or query_params is populated, and the no-operation response otherwise.
C6_AtMostOneFinalAction ==
    (pc = "END" /\ last.kind = "return") =>
      LET populated ==
              \/ IsSet(state.source_query_params)
                    /\ IsSet(state.destination_query_params)
              \/ IsSet(state.trigger_parts)
              \/ IsSet(state.query_params_for_edit)
              \/ IsSet(state.entity)
              \/ IsSet(state.query_params)
      IN  /\ populated => api_branch \in FinalActions
          /\ ~populated => api_branch = "noop" /\ http = <<>>
          /\ Len(http) <= 1
          /\ IsSet(state.response)

\* a query run whose resolver failed ends in the no-operation response
C6_Witness ==
    /\ pc = "END"
    /\ last.kind = "return"
    /\ api_branch = "noop"
    /\ state.flow_type = Some("query")
    /\ state.errors # <<>>

\* the same run with the query structured: the query branch ran
C6_WitnessQuery ==
    /\ pc = "END"
    /\ api_branch = "query"
    /\ state.flow_type = Some("query")
    /\ Len(http) = 1

\* C7 as stated: every query run, the empty input included, ends with
\* query_params set or an entry in errors, and never with query_params and
\* query_params_for_edit both set.
C7_QueryRunAnyInput ==
    (pc = "END" /\ state.flow_type = Some("query")) =>
        /\ IsSet(state.query_params) \/ state.errors # <<>>
        /\ ~(IsSet(state.query_params) /\ IsSet(state.query_params_for_edit))

\* C7 amended: every query run on a non-empty input ends with query_params
\* set or an entry in errors, and never with both query fields set.
C7_QueryRunNonEmptyInput ==
    (pc = "END" /\ state.flow_type = Some("query") /\ state.input # "") =>
        /\ IsSet(state.query_params) \/ state.errors # <<>>
        /\ ~(IsSet(state.query_params) /\ IsSet(state.query_params_for_edit))

\* a query run on a non-empty input that ended with query_params set and
\* no error
C7_Witness ==
    /\ pc = "END"
    /\ state.flow_type = Some("query")
    /\ state.input # ""
    /\ IsSet(state.query_params)
    /\ state.errors = <<>>

\* C8: source_query_params and destination_query_params are both set only
\* if is_geographic was recorded as true.
C8_GeoExclusive ==
    (IsSet(state.source_query_params) /\ IsSet(state.destination_query_params))
        => state.is_geographic = Some(TRUE)

\* both geographic query fields have been structured
C8_Witness ==
    /\ IsSet(state.source_query_params)
    /\ IsSet(state.destination_query_params)
    /\ Executed("query_parser")

\* C9: when query_parser fails on the schema of one entity kind, the fields
\* of the other calls of the same invocation, whose schemas exist, are set.
C9_OtherKindsStillStructured ==
    (last.node = "query_parser"
       /\ last.msg = "Schema file not found for entity type") =>
        \A i \in 1..Len(QueryCalls(state)) :
            get_entity_schema(schemas, QueryCalls(state)[i].entity_type)
                => IsSet(state[QueryCalls(state)[i].key])

TriggerPartsReaders == {"check_geographic", "geographic_extract",
                        "check_action", "action_extract", "action_parser"}

\* C10: no step that reads trigger_parts raises because it is unset, and
\* each of them calls its capability on input when it is unset.
C10_FallsBackToInput ==
    /\ ~(/\ last.node \in TriggerPartsReaders
         /\ last.kind = "raise"
         /\ ~IsSet(state.trigger_parts)
         /\ last.msg = "'NoneType' object has no attribute 'query'")
    /\ ~IsSet(state.trigger_parts) =>
          \A i \in 1..Len(calls) :
              calls[i].node \in TriggerPartsReaders
                  => calls[i].text = state.input

\* s is a prefix of t
IsPrefix(s, t) == Len(s) <= Len(t) /\ SubSeq(t, 1, Len(s)) = s

\* C11: within a run input never changes, no step changes the value of a
\* field an earlier step already set, and errors and messages only append;
\* the terminal step is included.
C11_WriteOnce ==
    [][/\ state'.input = state.input
       /\ \A k \in OptionalFields :
              IsSet(state[k]) => state'[k] = state[k]
       /\ \A k \in ReducerFields : IsPrefix(state[k], state'[k])]_vars

\* C12: every entry of errors stays in the list at its position and later
\* failures append after it; the node routed to next is the one the
\* routing would pick with errors empty, and it can execute, with the same
\* outcomes it would have with errors empty.
C12_ErrorsOnlyGrow ==
    [][/\ IsPrefix(state.errors, state'.errors)
       /\ pc' = Router(pc, [state' EXCEPT !.errors = <<>>])
       /\ pc' \in Nodes =>
             /\ NodeOutcomes(pc', state', schemas) # {}
             /\ NodeOutcomes(pc', state', schemas) =
                  NodeOutcomes(pc', [state' EXCEPT !.errors = <<>>],
                               schemas)]_vars

\* three steps failed one after the other and the run went on to the end
C12_Witness ==
    /\ pc = "END"
    /\ Len(state.errors) = 3
    /\ state.errors[1] # state.errors[2]
    /\ state.errors[2] # state.errors[3]
    /\ last.kind = "return"

SchemaNotFound == "Schema file not found for entity type"

\* C13: a schema lookup that fails on a missing schema file is recorded as
\* an entry of errors, the run does not abort, and it goes on through the
\* remaining steps to api_agent.
C13_SchemaFailureRecorded ==
    /\ last.msg = SchemaNotFound =>
          /\ last.node \in {"query_parser", "action_parser"}
          /\ state.errors # <<>>
          /\ state.errors[Len(state.errors)] = SchemaNotFound
          /\ pc = (IF last.node = "query_parser"
                   THEN "action_parser" ELSE "api_agent")
    /\ (\E i \in 1..Len(state.errors) : state.errors[i] = SchemaNotFound) =>
          /\ pc \in {"action_parser", "api_agent", "END"}
          /\ pc = "END" =>
                /\ Executed("action_parser")
                /\ executed[Len(executed)] = "api_agent"

\* both structuring steps failed on a missing schema file and the terminal
\* step still ran and answered
C13_Witness ==
    /\ pc = "END"
    /\ state.errors = <<SchemaNotFound, SchemaNotFound>>
    /\ last.node = "api_agent"
    /\ IsSet(state.response)

ErrorResponses ==
    {Some("Error: request failed"),
     Some("Error: 'NoneType' object has no attribute 'filters'")}

\* C14: when building the payload or the HTTP call fails inside a branch of
\* api_agent, the step returns a response of the form "Error: <message>":
\* nothing is raised, errors gets no entry and response is set.
C14_BranchFailureIsResponse ==
    [][(/\ pc = "api_agent"
        /\ \/ \E i \in 1..Len(http') : ~http'[i].ok
           \/ api_branch' = "layer_trigger" /\ ~IsSet(state.query_params)
           \/ last'.kind = "raise" /\ api_branch' # "none")
       => /\ last'.kind = "return"
          /\ state'.errors = state.errors
          /\ state'.response \in ErrorResponses
          /\ pc' = "END"]_vars

\* the request of the entity-creation branch failed and the step answered
\* with the error text
C14_Witness ==
    /\ pc = "END"
    /\ api_branch = "create"
    /\ Len(http) = 1 /\ ~http[1].ok
    /\ state.response = Some("Error: request failed")
    /\ state.errors = <<>>

LongestPath ==
    <<"classify_input", "trigger_extract", "check_geographic",
      "geographic_extract", "check_action", "action_extract",
      "entity_name_extract", "query_parser", "action_parser", "api_agent">>

\* C15: a run starts at classify_input, executes no step twice, never
\* returns to a step it has executed, and executes at most 10 steps; only
\* the path of a geographic trigger with an update action has 10.
C15_EachStepAtMostOnce ==
    /\ Len(executed) <= 10
    /\ \A i, j \in 1..Len(executed) : i < j => executed[i] # executed[j]
    /\ executed # <<>> => executed[1] = "classify_input"
    /\ executed = <<>> => pc = "classify_input"
    /\ pc \in Nodes => ~Executed(pc)
    /\ Len(executed) = 10 => executed = LongestPath /\ pc = "END"

\* the run of a geographic trigger with an update action, at its end
C15_Witness ==
    /\ pc = "END"
    /\ executed = LongestPath
    /\ state.flow_type = Some("trigger")
    /\ state.is_geographic = Some(TRUE)
    /\ state.action_type = Some("update_entity")

ResolverTail ==
    <<"entity_name_extract", "query_parser", "action_parser", "api_agent">>

\* C16: from the execution of entity_name_extract on, the run executes
\* query_parser, action_parser and api_agent, in that order and once each,
\* whatever the fields and errors hold; api_agent executes only right
\* after the three.
C16_ResolverThenParsersThenApi ==
    /\ \A i \in 1..Len(executed) :
          executed[i] = "entity_name_extract" =>
            LET rest == SubSeq(executed, i, Len(executed))
            IN  /\ IsPrefix(rest, ResolverTail)
                /\ pc = (IF Len(rest) = 4 THEN "END"
                         ELSE ResolverTail[Len(rest) + 1])
    /\ \A i \in 1..Len(executed) :
          executed[i] = "api_agent" =>
            /\ i >= 4
            /\ SubSeq(executed, i - 3, i) = ResolverTail

\* an action run in which two of the steps after the resolver recorded an
\* error and the terminal step still ran last
C16_Witness ==
    /\ pc = "END"
    /\ state.flow_type = Some("action")
    /\ Len(state.errors) = 2
    /\ Len(executed) >= 4
    /\ SubSeq(executed, Len(executed) - 3, Len(executed)) = ResolverTail

\* the errors entries that come from an external capability: a failed LLM
\* call of a node, or a missing schema file
ExternalFailures ==
    {"classify_input: capability failure",
     "trigger_extract: capability failure",
     "check_geographic: capability failure",
     "geographic_extract: capability failure",
     "check_action: capability failure",
     "action_extract: capability failure",
     "entity_name_extract: capability failure",
     "query_parser: capability failure",
     "action_parser: capability failure",
     "api_agent: capability failure",
     SchemaNotFound}

\* no LLM call and no schema lookup of the run failed, and every HTTP
\* request was answered
AllExternalCallsSucceeded ==
    /\ \A i \in 1..Len(state.errors) : state.errors[i] \notin ExternalFailures
    /\ \A i \in 1..Len(http) : http[i].ok

\* C17: in a run with flow_type = action and action_type = create_entity
\* in which every external capability call succeeds, action_parser sets
\* entity, and api_agent takes the entity-creation branch and returns a
\* non-empty response.
C17_CreateRunCreatesEntity ==
    (/\ pc = "END"
     /\ state.flow_type = Some("action")
     /\ state.action_type = Some("create_entity")
     /\ AllExternalCallsSucceeded)
    => /\ IsSet(state.entity)
       /\ api_branch = "create"
       /\ Len(http) = 1 /\ http[1].url = "/entities/add"
       /\ TruthyStr(state.response)

ResolverTexts ==
    LET rc == SelectSeq(calls, LAMBDA c : c.node = "entity_name_extract")
    IN  [i \in 1..Len(rc) |-> rc[i].text]

EntityTypeFields == {"entity_type_query", "entity_type_action",
                     "entity_type_source", "entity_type_destination"}

\* the resolver resolved text into field k in the invocation that just
\* returned
Resolved(text, k) ==
    /\ \E i \in 1..Len(ResolverTexts) : ResolverTexts[i] = text
    /\ IsSet(state[k])

\* none of the four raw-text sources is populated
NoRawText ==
    /\ ~IsSet(state.raw_query_params_for_edit)
    /\ ~IsSet(state.raw_source_query)
    /\ ~IsSet(state.raw_destination_query)
    /\ ~IsSet(state.trigger_parts)

\* the resolver made exactly one call, on input, and set field k and no
\* other entity_type field
ResolvedInputInto(k) ==
    /\ ResolverTexts = <<state.input>>
    /\ IsSet(state[k])
    /\ \A f \in EntityTypeFields \ {k} : ~IsSet(state[f])

\* C19 as stated: an invocation of the resolver that returns has resolved a
\* kind for every populated raw text (the three raw fields and both parts
\* of trigger_parts), and when none of the four sources is populated it
\* has resolved exactly one kind from input, into entity_type_action in an
\* action run and into entity_type_query otherwise.
C19_ResolvesEveryRawText ==
    (last.node = "entity_name_extract" /\ last.kind = "return") =>
      LET tp == state.trigger_parts
      IN  /\ TruthyStr(state.raw_query_params_for_edit) =>
                Resolved(Val(state.raw_query_params_for_edit),
                         "entity_type_action")
          /\ TruthyStr(state.raw_source_query) =>
                Resolved(Val(state.raw_source_query), "entity_type_source")
          /\ TruthyStr(state.raw_destination_query) =>
                Resolved(Val(state.raw_destination_query),
                         "entity_type_destination")
          /\ (IsSet(tp) /\ Val(tp).query # "") =>
                Resolved(Val(tp).query, "entity_type_query")
          /\ (IsSet(tp) /\ Val(tp).action # "") =>
                Resolved(Val(tp).action, "entity_type_action")
          /\ NoRawText =>
                IF state.flow_type = Some("action")
                THEN ResolvedInputInto("entity_type_action")
                ELSE ResolvedInputInto("entity_type_query")

\* C19 amended: an invocation of the resolver that returns has resolved a
\* kind for every non-empty raw text, the query part of trigger_parts only
\* when is_geographic is false, and when none of the four sources is
\* populated and input is not empty it has resolved exactly one kind from
\* input, into entity_type_action in an action run and into
\* entity_type_query otherwise.
C19_ResolvesRawTextOrInput ==
    (last.node = "entity_name_extract" /\ last.kind = "return") =>
      LET tp == state.trigger_parts
      IN  /\ TruthyStr(state.raw_query_params_for_edit) =>
                Resolved(Val(state.raw_query_params_for_edit),
                         "entity_type_action")
          /\ TruthyStr(state.raw_source_query) =>
                Resolved(Val(state.raw_source_query), "entity_type_source")
          /\ TruthyStr(state.raw_destination_query) =>
                Resolved(Val(state.raw_destination_query),
                         "entity_type_destination")
          /\ (IsSet(tp) /\ Val(tp).query # ""
                  /\ state.is_geographic = Some(FALSE)) =>
                Resolved(Val(tp).query, "entity_type_query")
          /\ (IsSet(tp) /\ Val(tp).action # "") =>
                Resolved(Val(tp).action, "entity_type_action")
          /\ (NoRawText /\ state.input # "") =>
                IF state.flow_type = Some("action")
                THEN ResolvedInputInto("entity_type_action")
                ELSE ResolvedInputInto("entity_type_query")
          /\ (NoRawText /\ state.input = "") =>
                /\ ResolverTexts = <<>>
                /\ \A f \in EntityTypeFields : ~IsSet(state[f])

\* an entity-creation run: nothing but input to resolve, and the kind went
\* to entity_type_action
C19_Witness ==
    /\ last.node = "entity_name_extract" /\ last.kind = "return"
    /\ NoRawText
    /\ state.action_type = Some("create_entity")
    /\ ResolvedInputInto("entity_type_action")

\* C20: a cancellation that reaches a suspended step adds no entry to
\* errors and sets no response, the run ends there, and nothing happens
\* after it: no step runs and no request is issued; the requests issued
\* before it, the one in flight included, stay issued.
C20_CancellationStopsRun ==
    [][/\ last'.kind = "cancelled" =>
             /\ pc' = "CANCELLED"
             /\ state'.errors = state.errors
             /\ state'.response = state.response
             /\ IsPrefix(http, http')
       /\ pc = "CANCELLED" => FALSE]_vars

\* the run was cancelled during the request of the terminal step, after an
\* earlier step had failed: the request stays issued, errors holds only
\* the earlier failure and no response was set
C20_Witness ==
    /\ pc = "CANCELLED"
    /\ last.node = "api_agent" /\ last.kind = "cancelled"
    /\ Len(http) = 1
    /\ Len(state.errors) = 1
    /\ ~IsSet(state.response)

\* the run was cancelled during the LLM call of a step before the terminal
\* step and no request was ever issued
C20_WitnessEarly ==
    /\ pc = "CANCELLED"
    /\ last.node = "query_parser"
    /\ http = <<>>
    /\ ~Executed("api_agent")

\* C21: process_trigger_event raises when its argument holds an empty
\* trigger_data and an empty event_data; it returns no response for it.
C21_InvalidTriggerDataRaises ==
    (/\ frame.fn = "process_trigger_event"
     /\ frame.trigger_data = Some(EmptyDict)
     /\ frame.event_data = Some(EmptyDict))
    => /\ pc # "RETURNED"
       /\ ~IsSet(frame.result)

\* the wrapper call is over
JudgeDone == frame.fn = "JudgeWrapper" /\ pc \in {"RETURNED", "RAISED"}

\* how many times the wrapped function was invoked in the call
Invocations == Len(frame.responses) + frame.raised

\* C22: in one call of the wrapper the wrapped function is invoked at least
\* once and at most max_retries times; the wrapper returns the first
\* response the judge accepts, and when the judge rejects every attempt it
\* returns the response of the last invocation and does not fail.
C22_InvokedOnceToMaxRetries ==
    JudgeDone =>
      LET n == Len(frame.verdicts)
      IN  /\ Invocations >= 1
          /\ Invocations <= frame.max_retries
          \* an accepted response ends the call and is the one returned
          /\ \A i \in 1..n :
                validate_response(frame.verdicts[i]) =>
                  /\ i = n
                  /\ pc = "RETURNED"
                  /\ frame.returned = Some(frame.responses[i])
          \* every attempt rejected and none raised: the last one is returned
          /\ (/\ frame.raised = 0
              /\ IsSet(original_prompt(frame))
              /\ \A i \in 1..n : ~validate_response(frame.verdicts[i]))
             => /\ pc = "RETURNED"
                /\ frame.returned =
                      Some(frame.responses[Len(frame.responses)])

\* C23: a validation call that raises counts as acceptance: when the first
\* validation raises, the first response is returned and the wrapped
\* function was invoked exactly once; and when no prompt or messages are
\* found the wrapped function is invoked exactly once, its result is
\* returned and the judge is not called.
C23_JudgeFailureNeverBlocks ==
    JudgeDone =>
      /\ (frame.verdicts # <<>> /\ frame.verdicts[1] = "raise") =>
            /\ pc = "RETURNED"
            /\ Invocations = 1
            /\ frame.returned = Some(frame.responses[1])
      /\ ~IsSet(original_prompt(frame)) =>
            /\ Invocations = 1
            /\ frame.verdicts = <<>>
            /\ frame.raised = 0 =>
                  /\ pc = "RETURNED"
                  /\ frame.returned = Some(frame.responses[1])


\* explain_event has ended after a refinement whose model call or output
\* parsing failed
RefinementFailed ==
    /\ frame.fn = "explain_event"
    /\ frame.refine \in {"call failed", "parse failed"}

\* C24 as stated: when the refinement call or the parsing of its output
\* fails, _refine_action_with_llm hands back the original payload, and
\* explain_event always returns a result whose refined_action is that
\* payload.
C24_ExplainEventAlwaysReturnsRefinedAction ==
    RefinementFailed
        => /\ frame.refined_action = frame.payload
           /\ pc \in {"RETURNED", "RAISED"}
                  => /\ pc = "RETURNED"
                     /\ IsSet(frame.result)
                     /\ Val(frame.result).refined_action = frame.payload

\* C24 amended: when the refinement call or the parsing of its output
\* fails, _refine_action_with_llm hands back the original first-action
\* payload unchanged, and every result explain_event returns carries a
\* refined_action, equal to that payload in this case; explain_event
\* returns no result when a later step of it raises.
C24_RefinementFallsBackToPayload ==
    frame.fn = "explain_event"
        => /\ RefinementFailed
                  => /\ frame.refined_action = frame.payload
                     /\ frame.payload = Val(frame.trigger).payload
           /\ IsSet(frame.result) <=> pc = "RETURNED"
           /\ pc = "RETURNED"
                  => /\ IsSet(Val(frame.result).refined_action)
                     /\ Val(frame.result).refined_action = frame.refined_action

\* a failed refinement after which explain_event returned the original
\* payload as refined_action
C24_Witness ==
    /\ RefinementFailed
    /\ pc = "RETURNED"
    /\ Val(frame.result).refined_action = Val(frame.trigger).payload


\* a run classified as an action that check_action classified as an update
UpdateRun(s) ==
    /\ s.flow_type = Some("action")
    /\ s.action_type = Some("update_entity")

\* in executed, every entity_name_extract comes right after action_extract
ExtractorBeforeResolver(ex) ==
    \A i \in 1..Len(ex) :
        ex[i] = "entity_name_extract"
            => i > 1 /\ ex[i - 1] = "action_extract"

\* C25 as stated: in a run with flow_type = action and action_type =
\* update_entity, action_extract runs before entity_name_extract; when
\* action_extract, entity_name_extract and query_parser have all returned
\* without raising, query_params_for_edit is set, and api_agent takes the
\* update branch and no other.
C25_UpdateRunTakesUpdateBranch ==
    [][UpdateRun(state) =>
          /\ ExtractorBeforeResolver(executed')
          /\ (/\ pc = "query_parser"
              /\ IsSet(state.raw_query_params_for_edit)
              /\ last.kind = "return"
              /\ last'.kind = "return")
                 => IsSet(state'.query_params_for_edit)
          /\ (pc = "api_agent" /\ IsSet(state.query_params_for_edit))
                 => api_branch' = "update"]_vars

\* C25 amended: in a run with flow_type = action and action_type =
\* update_entity, action_extract runs before entity_name_extract; when
\* action_extract has returned a non-empty raw_query_params_for_edit and
\* entity_name_extract and query_parser have returned without raising,
\* query_params_for_edit is set, and api_agent, when it gets as far as
\* its branches, takes the update branch and no other, entity set or not.
C25_NonEmptyEditQueryTakesUpdateBranch ==
    [][UpdateRun(state) =>
          /\ ExtractorBeforeResolver(executed')
          /\ (/\ pc = "query_parser"
              /\ TruthyStr(state.raw_query_params_for_edit)
              /\ last.kind = "return"
              /\ last'.kind = "return")
                 => IsSet(state'.query_params_for_edit)
          /\ (/\ pc = "api_agent"
              /\ IsSet(state.query_params_for_edit)
              /\ last'.kind = "return")
                 => /\ api_branch' = "update"
                    /\ Len(http') = 1
                    /\ http'[1].url = "/entities/update-by-query/"]_vars

\* an update run whose extraction, resolution and structuring succeeded,
\* ended by the update request
C25_Witness ==
    /\ pc = "END"
    /\ UpdateRun(state)
    /\ executed = <<"classify_input", "check_action", "action_extract",
                    "entity_name_extract", "query_parser", "action_parser",
                    "api_agent">>
    /\ TruthyStr(state.raw_query_params_for_edit)
    /\ IsSet(state.query_params_for_edit)
    /\ ~IsSet(state.entity)
    /\ api_branch = "update"
    /\ http = <<Post("/entities/update-by-query/", "update", "none")>>


\* a trigger run that check_geographic classified as not geographic
NonGeographicTrigger(s) ==
    /\ s.flow_type = Some("trigger")
    /\ s.is_geographic = Some(FALSE)

\* C26: a run whose trigger is classified non-geographic never executes
\* check_action or action_extract, so action_type,
\* raw_query_params_for_edit and query_params_for_edit stay unset up to and
\* through api_agent, and every layer-trigger request carries the action
\* type createEntity (with the empty action query that goes with an unset
\* query_params_for_edit), never updateEntity.
C26_NonGeoTriggerActionIsCreate ==
    NonGeographicTrigger(state)
        => /\ ~Executed("check_action")
           /\ ~Executed("action_extract")
           /\ ~IsSet(state.action_type)
           /\ ~IsSet(state.raw_query_params_for_edit)
           /\ ~IsSet(state.query_params_for_edit)
           /\ \A i \in 1..Len(http) :
                 http[i].type = "layer" => http[i].action = "createEntity"

\* a non-geographic trigger run that posted its layer trigger
C26_Witness ==
    /\ pc = "END"
    /\ NonGeographicTrigger(state)
    /\ Executed("query_parser")
    /\ ~IsSet(state.action_type)
    /\ Len(http) = 1
    /\ http[1].type = "layer"
    /\ http[1].action = "createEntity"


\* C27: whenever entity_name_extract runs, query_parser has not run and
\* query_params_for_edit is unset; and when trigger_parts is set with a
\* non-empty action, the last call of the resolver is the one on
\* trigger_parts.action and the entity_type_action it returns is the kind
\* that call answered, whatever the earlier calls answered, the one on
\* raw_query_params_for_edit included.
C27_TriggerActionKindWins ==
    [][pc = "entity_name_extract" =>
          LET tp == state.trigger_parts
              ec == EntityCalls(state)
              n == Len(ec)
              keys == [i \in 1..n |-> ec[i].key]
          IN  /\ ~IsSet(state.query_params_for_edit)
              /\ ~Executed("query_parser")
              /\ (IsSet(tp) /\ Val(tp).action # "") =>
                    /\ n >= 1
                    /\ ec[n] = [key |-> "entity_type_action",
                                text |-> Val(tp).action]
                    /\ TruthyStr(state.raw_query_params_for_edit)
                          => /\ n >= 2
                             /\ ec[1] = [key |-> "entity_type_action",
                                    text |-> Val(state.raw_query_params_for_edit)]
                    /\ \A ans \in [1..n -> Kinds] :
                          DictOf(keys, ans)["entity_type_action"] = Some(ans[n])
                    /\ last'.kind = "return" =>
                          \E ans \in [1..n -> Kinds] :
                             /\ state' = ApplyUpdates(state, DictOf(keys, ans))
                             /\ state'.entity_type_action = Some(ans[n])]_vars

\* the resolver has returned in a run where both raw_query_params_for_edit
\* and trigger_parts.action were populated, so entity_type_action was
\* assigned twice in the one invocation
C27_Witness ==
    /\ pc = "query_parser"
    /\ last.kind = "return"
    /\ TruthyStr(state.raw_query_params_for_edit)
    /\ IsSet(state.trigger_parts)
    /\ Val(state.trigger_parts).action # ""
    /\ IsSet(state.entity_type_action)
    /\ Len(calls) >= 2
    /\ calls[Len(calls)] =
           Call("entity_name_extract", Val(state.trigger_parts).action)


\* C28: in every reachable state of every run, query_params and
\* query_params_for_edit are not both set.
C28_QueryParamsExclusive ==
    ~(IsSet(state.query_params) /\ IsSet(state.query_params_for_edit))


\* a geographic trigger run with an update action: query_parser has set
\* query_params_for_edit, and the trigger's own non-empty query was left
\* unstructured
C28_Witness ==
    /\ pc = "END"
    /\ Executed("query_parser")
    /\ IsSet(state.query_params_for_edit)
    /\ IsSet(state.trigger_parts)
    /\ Val(state.trigger_parts).query # ""
    /\ ~IsSet(state.query_params)


\* C29: whenever api_agent selects the layer-trigger branch while
\* query_params is unset, it issues no HTTP request, and it returns a
\* response that is an "Error: ..." string, which ends the run.
C29_LayerBranchWithoutQueryIsError ==
    [][(/\ pc = "api_agent"
        /\ api_branch' = "layer_trigger"
        /\ ~IsSet(state.query_params))
       => /\ http' = http
          /\ http' = <<>>
          /\ last'.kind = "return"
          /\ state'.response =
                Some("Error: 'NoneType' object has no attribute 'filters'")
          /\ pc' = "END"]_vars

\* a geographic trigger run whose query structuring failed: trigger_parts
\* is set, the source and destination params are not, and the run ended
\* with the error text and no request
C29_Witness ==
    /\ pc = "END"
    /\ state.is_geographic = Some(TRUE)
    /\ IsSet(state.trigger_parts)
    /\ \E i \in 1..Len(state.errors) :
          state.errors[i] = "query_parser: capability failure"
    /\ ~IsSet(state.source_query_params)
    /\ ~IsSet(state.query_params)
    /\ api_branch = "layer_trigger"
    /\ http = <<>>
    /\ state.response =
          Some("Error: 'NoneType' object has no attribute 'filters'")


\* the texts api_agent can put in response
ApiResponses ==
    {"Successfully created trigger", "Successfully updated entity",
     "Successfully created entity", "Query results",
     "No valid operation found in state",
     "Error: request failed",
     "Error: 'NoneType' object has no attribute 'filters'"}

\* C30: every run that has reached END has response set to a non-empty
\* string: once api_agent has executed, response holds a success text,
\* the no-operation text or an "Error: ..." text.
C30_EndHasResponse ==
    (pc = "END" \/ Executed("api_agent"))
        => /\ TruthyStr(state.response)
           /\ Val(state.response) \in ApiResponses

====
